---- MODULE Spec2Model ----
(***************************************************************************)
(* Model of the company-profile generator:                                 *)
(*   - api/src/service.py     fetch_html_urls (the crawl), analyze_website *)
(*   - api/src/ai_analyzer.py get_company_profile (fan-out / fan-in)       *)
(* Text is modelled as sequences of one-character strings, URLs as names   *)
(* whose text is given by UrlText.                                         *)
(***************************************************************************)
EXTENDS Integers, Sequences, FiniteSets, Bags, TLC

(***************************************************************************)
(* Bounds of the model.                                                    *)
(***************************************************************************)
\* largest max_depth a direct caller of fetch_html_urls passes
MaxDepthBound == 3
\* largest number of links on the pages of the site, all pages together
MaxSiteLinks == 4

(***************************************************************************)
(* The URLs of the modelled web.  UrlText(u) is the text of u after the    *)
(* scheme and the optional "www." prefix, one character per element; the   *)
(* extension of a path is kept as one element.                             *)
(***************************************************************************)
Urls == {"S", "A", "P", "X"}

\* two more pages of the seed's site, for the webs that need five pages
DeepUrls == {"B", "C"}

UrlText(u) ==
    CASE u = "S" -> <<"e", ".", "c", "/">>
      [] u = "A" -> <<"e", ".", "c", "/", "a">>
      [] u = "P" -> <<"e", ".", "c", "/", "b", ".pdf">>
      [] u = "X" -> <<"e", "x", ".", "c", "/">>
      [] u = "B" -> <<"e", ".", "c", "/", "b">>
      [] u = "C" -> <<"e", ".", "c", "/", "c">>

\* the URL an analysis or a crawl is started on
Seeds == {"S"}

\* the response bodies with at most n links to the urls of U: the link
\* tokens, in document order
Bodies(U, n) == UNION {[1..k -> U] : k \in 0..n}

\* the web of a run: its urls, the number of links its pages hold in total,
\* whether its requests can fail, and whether its pages are served with
\* their links in reversed document order
Web(U, n, f) == [urls |-> U, links |-> n, faults |-> f, mirrored |-> FALSE]

\* the web of the crawls and analyses
FullWeb == Web(Urls, MaxSiteLinks, TRUE)

\* a web with one link less
SmallWeb == Web(Urls, MaxSiteLinks - 1, TRUE)

\* a web of five pages of one domain that answers every request with 2xx
LinkedWeb == Web((Urls \ {"X"}) \cup DeepUrls, MaxSiteLinks + 1, FALSE)

VARIABLES
    phase,          \* "idle", "crawl", "crawled", "convert", "returned",
                    \*   "responded"
    caller,         \* "analyze_website" or "direct": who called fetch_html_urls
    seed,           \* url of the top-level call
    max_depth,      \* max_depth of the crawl
    visited,        \* _visited, shared by the whole recursion
    html_contents,  \* _html_contents, shared by the whole recursion
    stack,          \* the activations of fetch_html_urls, innermost last
    result,         \* the list returned by the top-level call, as a bag
    fetchLog,       \* history: the requests.get calls issued, in order
    web,            \* the web the requests go to
    site,           \* the answers of the web so far, by url: a web answers
                    \*   the same url the same way every time
    first,          \* the result of the crawl made before the pages were
                    \*   mirrored
    all_domain_urls,    \* analyze_website: the filtered items of the crawl's value
    conv_i,             \* analyze_website: position of the conversion loop
    converted,          \* converted_html_contents_to_markdown
    convLog,            \* history: the convert_document_to_markdown calls
    all_markdown_content,
    analysis,           \* the value analyze_website returned, "none" before
    response            \* what the /analyze-website route gave its client

crawlVars == <<visited, html_contents, stack, result, fetchLog, web, site,
               first>>
analysisVars == <<all_domain_urls, conv_i, converted, convLog,
                  all_markdown_content,
                  analysis, response>>

VARIABLES
    ppc,               \* get_company_profile: "idle", "normalizing", "gather",
                       \*   "tier2", "done"
    markdown_content,  \* the text convert_html_to_markdown returned
    task,              \* the six coroutines handed to asyncio.gather
    processed_results, \* processed_results, by field
    tier2,             \* the tier-2 call: its state and its tier_1_keywords
    profile            \* the dict get_company_profile returned

profileVars == <<ppc, markdown_content, task, processed_results, tier2, profile>>
vars == <<phase, caller, seed, max_depth, crawlVars, analysisVars, profileVars>>

\* max_depth=2, the default of fetch_html_urls, used by analyze_website
DefaultMaxDepth == 2

(***************************************************************************)
(* service.py: fetch_html_urls                                             *)
(***************************************************************************)

\* re.search(r"http[s]?://(?:www\.)?([^./]+)", str(url)).group(1)
MainDomain(u) ==
    LET t == UrlText(u)
        n == CHOOSE k \in 0..Len(t) :
                /\ \A j \in 1..k : t[j] \notin {".", "/"}
                /\ (k = Len(t) \/ t[k + 1] \in {".", "/"})
    IN  SubSeq(t, 1, n)

\* the pattern  http[s]?://(?:www\.)? + re.escape(main_domain) + [^ \t\n\r"'>]*
PatternMatches(md, u) ==
    /\ Len(md) <= Len(UrlText(u))
    /\ SubSeq(UrlText(u), 1, Len(md)) = md

\* `main_domain in u`
DomainInUrl(md, u) ==
    \E k \in 1..(Len(UrlText(u)) + 1) :
        /\ k + Len(md) - 1 <= Len(UrlText(u))
        /\ SubSeq(UrlText(u), k, k + Len(md) - 1) = md

\* domain_urls: re.findall over the body, then the `main_domain in u` filter
DomainUrls(u, body) ==
    LET md == MainDomain(u)
    IN  SelectSeq(body, LAMBDA v : PatternMatches(md, v) /\ DomainInUrl(md, v))

SeqToSet(s) == {s[i] : i \in DOMAIN s}

\* a python list read up to the order of its elements
ListOf(S) == SetToBag(S)

\* the guard of line 67 without both of its tests
NeverSkipped(u, d) == FALSE

\* the guard of line 67 without the visited-set
SkippedByDepthOnly(u, d) == d >= max_depth

\* the guard of line 67 without the depth bound
SkippedByVisitedOnly(u, d) == u \in visited

\* `url in _visited or _depth >= max_depth`
Skipped(u, d) == u \in visited \/ d >= max_depth

Frame(u, d) ==
    [url |-> u, depth |-> d, pc |-> "enter", domain_urls |-> <<>>, i |-> 1,
     all_urls |-> {}]

Top == stack[Len(stack)]

\* `return lst, _html_contents`: to the caller's loop, or out of the crawl
ReturnList(lst) ==
    IF Len(stack) = 1
    THEN /\ stack' = <<>>
         /\ result' = lst
         /\ phase' = "crawled"
    ELSE LET c == stack[Len(stack) - 1]
         IN  /\ stack' = SubSeq(stack, 1, Len(stack) - 2)
                          \o <<[c EXCEPT !.all_urls = @ \cup BagToSet(lst),
                                         !.i = @ + 1]>>
             /\ UNCHANGED <<result, phase>>

\* a direct top-level call fetch_html_urls(url, max_depth=d)
CallFetchHtmlUrls ==
    /\ phase = "idle"
    /\ \E u \in Seeds, d \in 0..MaxDepthBound :
        /\ seed' = u
        /\ max_depth' = d
        /\ stack' = <<Frame(u, 0)>>
    /\ caller' = "direct"
    /\ phase' = "crawl"
    /\ UNCHANGED <<visited, html_contents, result, fetchLog, web, site, first,
                   analysisVars, profileVars>>

\* lines 67-68: the url is visited or the depth bound is reached
SkipUrl ==
    /\ phase = "crawl"
    /\ Top.pc = "enter"
    /\ Skipped(Top.url, Top.depth)
    /\ ReturnList(EmptyBag)
    /\ UNCHANGED <<caller, seed, max_depth, visited, html_contents, fetchLog,
                   web, site, first, analysisVars, profileVars>>

RECURSIVE LinksIn(_, _)
\* the number of links in the bodies answered for the urls of U
LinksIn(answers, U) ==
    IF U = {} THEN 0
    ELSE LET u == CHOOSE v \in U : TRUE
         IN  Len(answers[u].body) + LinksIn(answers, U \ {u})

\* the links the web may still serve
LinksLeft == web.links - LinksIn(site, DOMAIN site)

\* the body in reversed document order
Reverse(body) == [j \in 1..Len(body) |-> body[Len(body) + 1 - j]]

\* the body as the web serves it
Served(body) == IF web.mirrored THEN Reverse(body) ELSE body

\* the answers requests.get(u) can return: the one already given, or any
\* status and body the web has room for
Answers(u) ==
    IF u \in DOMAIN site
    THEN {site[u]} \cap [outcome : {"2xx", "non2xx"}, body : {site[u].body}]
    ELSE [outcome : IF web.faults THEN {"2xx", "non2xx"} ELSE {"2xx"},
          body : Bodies(web.urls, LinksLeft)]

\* the answers of the web with the answer a to url u
Answered(u, a) ==
    [v \in DOMAIN site \cup {u} |-> IF v = u THEN a ELSE site[v]]

\* response.raise_for_status() is called at depth 0 only
RaisesForStatus(d, ok) == d = 0 /\ ~ok

\* lines 70-79, requests.get raises: logged, `return [], _html_contents`
FetchRaises ==
    /\ phase = "crawl"
    /\ Top.pc = "enter"
    /\ ~Skipped(Top.url, Top.depth)
    /\ web.faults
    /\ Top.url \in DOMAIN site => site[Top.url].outcome = "raised"
    /\ site' = Answered(Top.url, [outcome |-> "raised", body |-> <<>>])
    /\ visited' = visited \cup {Top.url}
    /\ fetchLog' = Append(fetchLog, [url |-> Top.url, depth |-> Top.depth,
                                     outcome |-> "raised"])
    /\ ReturnList(EmptyBag)
    /\ UNCHANGED <<caller, seed, max_depth, html_contents, web, first,
                   analysisVars, profileVars>>

\* lines 70-89, requests.get returns a response (2xx when ok) with a body
FetchResponds ==
    /\ phase = "crawl"
    /\ Top.pc = "enter"
    /\ ~Skipped(Top.url, Top.depth)
    /\ visited' = visited \cup {Top.url}
    /\ \E a \in Answers(Top.url) :
        LET ok == a.outcome = "2xx"
            body == Served(a.body)
        IN  /\ site' = Answered(Top.url, a)
            /\ fetchLog' = Append(fetchLog,
                                  [url |-> Top.url, depth |-> Top.depth,
                                   outcome |-> a.outcome])
            /\ IF RaisesForStatus(Top.depth, ok)
               THEN /\ ReturnList(EmptyBag)
                    /\ UNCHANGED html_contents
               ELSE /\ html_contents' =
                         [v \in DOMAIN html_contents \cup {Top.url} |->
                            IF v = Top.url THEN body ELSE html_contents[v]]
                    /\ stack' = [stack EXCEPT ![Len(stack)] =
                         [@ EXCEPT !.pc = "loop",
                                   !.domain_urls = DomainUrls(Top.url, body),
                                   !.all_urls =
                                       SeqToSet(DomainUrls(Top.url, body))]]
                    /\ UNCHANGED <<result, phase>>
    /\ UNCHANGED <<caller, seed, max_depth, web, first, analysisVars,
                   profileVars>>

\* lines 93-100: the recursive call on the next found url
Recurse ==
    /\ phase = "crawl"
    /\ Top.pc = "loop"
    /\ Top.i <= Len(Top.domain_urls)
    /\ stack' = Append(stack, Frame(Top.domain_urls[Top.i], Top.depth + 1))
    /\ UNCHANGED <<phase, caller, seed, max_depth, visited, html_contents,
                   result, fetchLog, web, site, first, analysisVars,
                   profileVars>>

\* line 103: `return list(all_urls) + [str(url)], _html_contents`
ReturnUrls ==
    /\ phase = "crawl"
    /\ Top.pc = "loop"
    /\ Top.i > Len(Top.domain_urls)
    /\ ReturnList(ListOf(Top.all_urls) (+) SetToBag({Top.url}))
    /\ UNCHANGED <<caller, seed, max_depth, visited, html_contents, fetchLog,
                   web, site, first, analysisVars, profileVars>>

(***************************************************************************)
(* service.py: analyze_website                                             *)
(***************************************************************************)

\* the extensions of the pattern of lines 15-19
BlockedExts ==
    {".pdf", ".jpg", ".jpeg", ".png", ".gif", ".bmp", ".svg", ".doc", ".docx",
     ".xls", ".xlsx", ".ppt", ".pptx", ".zip", ".rar", ".tar.gz", ".mp3",
     ".mp4", ".avi", ".mov", ".wmv", ".flv", ".mkv", ".css"}

\* re.search(r"\.(pdf|...|css)(\?|$)", text, re.IGNORECASE)
BlockedText(t) ==
    \E i \in 1..Len(t) :
        /\ t[i] \in BlockedExts
        /\ (i = Len(t) \/ t[i + 1] = "?")

\* the pattern searched in str(lst): every url of the list is followed by
\* the quote that closes it
BlockedListText(lst) ==
    \E u \in BagToSet(lst) : BlockedText(UrlText(u) \o <<"'">>)

\* the body of the mock profile, lines 35-57
MockProfile ==
    [company_name |-> <<"Example Company">>,
     service_lines |-> << <<"Web Development">>, <<"Mobile App Development">>,
                          <<"Cloud Services">> >>,
     company_description |-> <<"A leading technology company">>,
     tier1_keywords |-> << <<"technology">>, <<"innovation">>, <<"solutions">>,
                           <<"business">>, <<"software">> >>,
     tier2_keywords |-> << <<"AI">>, <<"machine learning">>, <<"automation">> >>,
     emails |-> << <<"contact@example.com">> >>,
     point_of_contact |-> <<"John Doe">>]

\* analyze_website(website_url): line 14 calls fetch_html_urls(website_url)
AnalyzeWebsite ==
    /\ phase = "idle"
    /\ \E u \in Seeds :
        /\ seed' = u
        /\ stack' = <<Frame(u, 0)>>
    /\ max_depth' = DefaultMaxDepth
    /\ caller' = "analyze_website"
    /\ phase' = "crawl"
    /\ UNCHANGED <<visited, html_contents, result, fetchLog, web, site, first,
                   analysisVars, profileVars>>

\* a dict or a list cannot be the key of a dict
Hashable(item) == item \notin {"list", "dict"}

\* lines 12-20: the comprehension runs over the pair (list, dict) that
\* fetch_html_urls returned, and tests str() of each of the two; the text of
\* the bodies in str(dict) is not modelled, so the dict is kept or dropped
FilterUrls ==
    /\ phase = "crawled"
    /\ caller = "analyze_website"
    /\ \E dictBlocked \in BOOLEAN :
        all_domain_urls' =
            (IF BlockedListText(result) THEN <<>> ELSE <<"list">>)
            \o (IF dictBlocked THEN <<>> ELSE <<"dict">>)
    /\ conv_i' = 1
    /\ phase' = "convert"
    /\ UNCHANGED <<caller, seed, max_depth, crawlVars, converted, convLog,
                   all_markdown_content, analysis, response, profileVars>>

\* lines 24-30: convert_document_to_markdown(str(url)) raises or returns a
\* text; storing it under an unhashable key raises; both are logged
ConvertDocument ==
    /\ phase = "convert"
    /\ conv_i <= Len(all_domain_urls)
    /\ \E raised \in BOOLEAN :
        /\ converted' =
              IF ~raised /\ Hashable(all_domain_urls[conv_i])
              THEN Append(converted, <<"md">>)
              ELSE converted
        /\ convLog' = Append(convLog, [item |-> all_domain_urls[conv_i],
                                       raised |-> raised])
    /\ conv_i' = conv_i + 1
    /\ UNCHANGED <<phase, caller, seed, max_depth, crawlVars, all_domain_urls,
                   all_markdown_content, analysis, response, profileVars>>

RECURSIVE Join(_)
\* "\n\n".join(values)
Join(texts) ==
    IF texts = <<>> THEN <<>>
    ELSE IF Len(texts) = 1 THEN texts[1]
    ELSE texts[1] \o <<"\n\n">> \o Join(Tail(texts))

\* lines 32-59: the texts are joined and the mock profile is returned
ReturnProfile ==
    /\ phase = "convert"
    /\ conv_i > Len(all_domain_urls)
    /\ all_markdown_content' = Join(converted)
    /\ analysis' = MockProfile
    /\ phase' = "returned"
    /\ UNCHANGED <<caller, seed, max_depth, crawlVars, all_domain_urls, conv_i,
                   converted, convLog, response, profileVars>>

\* the route has not answered
NoResponse == [status |-> "none", detail |-> "none"]

\* presentation.py lines 42-45: the route awaits the value of the plain
\* function service.analyze_website, a dict: `await` raises TypeError and the
\* request ends in an error response, CompanyProfile(...) is not reached
RouteResponds ==
    /\ phase = "returned"
    /\ response' = [status |-> "error", detail |-> "TypeError"]
    /\ phase' = "responded"
    /\ UNCHANGED <<caller, seed, max_depth, crawlVars, all_domain_urls, conv_i,
                   converted, convLog, all_markdown_content, analysis,
                   profileVars>>

(***************************************************************************)
(* ai_analyzer.py: get_company_profile                                     *)
(***************************************************************************)

\* the literal "Unknown"
Unknown == <<"U", "n", "k", "n", "o", "w", "n">>

\* values of the returned dict: a str, or a list of str
Str(t) == [kind |-> "str", v |-> t]
List(l) == [kind |-> "list", v |-> l]

\* the coroutines of `tasks`, lines 34-41
ScalarFields == {"company_name", "company_description", "point_of_contact"}
ListFields == {"service_lines", "tier1_keywords", "emails"}
IndependentFields == ScalarFields \cup ListFields

\* response.text of the extraction capability; <<>> is None or ""
ScalarTexts == {<<>>, <<"N">>, Unknown}
ListTexts ==
    {<<>>, <<"a", ",", "b">>, <<"a", ",", " ", "b", ",", " ", "c">>, Unknown}
TextsOf(f) == IF f \in ScalarFields THEN ScalarTexts ELSE ListTexts

\* an extractor that returns response.text as it is
ExtractorReturnsText(text) == text

\* `return response.text if response.text else "Unknown"`
ExtractorReturn(text) == IF text # <<>> THEN text ELSE Unknown

Pending == [st |-> "pending", kind |-> "none", text |-> <<>>, ret |-> <<>>]

RECURSIVE Split(_)
\* text.split(",")
Split(t) ==
    IF \A i \in 1..Len(t) : t[i] # ","
    THEN <<t>>
    ELSE LET i == CHOOSE k \in 1..Len(t) :
                    t[k] = "," /\ \A j \in 1..(k - 1) : t[j] # ","
         IN  <<SubSeq(t, 1, i - 1)>> \o Split(SubSeq(t, i + 1, Len(t)))

SplitOrBareUnknown(x) ==
    IF x # <<>> /\ x # Unknown THEN List(Split(x)) ELSE Str(Unknown)

\* `x.split(",") if x and x != "Unknown" else ["Unknown"]`, lines 74-86
SplitOrUnknown(x) ==
    IF x # <<>> /\ x # Unknown THEN List(Split(x)) ELSE List(<<Unknown>>)

\* the dict of lines 24-32, returned when markdown_content is None
NoneProfile ==
    [company_name |-> Str(Unknown),
     service_lines |-> Str(Unknown),
     company_description |-> Str(Unknown),
     tier1_keywords |-> Str(Unknown),
     tier2_keywords |-> Str(Unknown),
     emails |-> Str(Unknown),
     point_of_contact |-> Str(Unknown)]

\* get_company_profile has returned nothing
NoProfile == [returned |-> FALSE]

PartialErrorProfile == [company_name |-> Str(Unknown)]

\* the dict of lines 92-100, returned by the outer except
ErrorProfile ==
    [company_name |-> Str(Unknown),
     service_lines |-> List(<<Unknown>>),
     company_description |-> Str(Unknown),
     tier1_keywords |-> List(<<Unknown>>),
     tier2_keywords |-> List(<<Unknown>>),
     emails |-> List(<<Unknown>>),
     point_of_contact |-> Str(Unknown)]

\* the dict of lines 72-88
BuiltProfile(r, tier_2_keywords) ==
    [company_name |-> Str(r["company_name"]),
     service_lines |-> SplitOrUnknown(r["service_lines"]),
     company_description |-> Str(r["company_description"]),
     tier1_keywords |-> SplitOrUnknown(r["tier1_keywords"]),
     tier2_keywords |-> SplitOrUnknown(tier_2_keywords),
     emails |-> SplitOrUnknown(r["emails"]),
     point_of_contact |-> Str(r["point_of_contact"])]

\* lines 45-51: an exception among the gathered results becomes "Unknown"
Processed(t) == IF t.kind = "raise" THEN Unknown ELSE t.ret

\* a wait that returns when the first task has a result or an exception
FirstCompleted(t) == \E f \in IndependentFields : t[f].st = "settled"

\* asyncio.gather(*tasks, return_exceptions=True) returns when every task
\* has a result or an exception
GatherDone(t) == \A f \in IndependentFields : t[f].st = "settled"

\* get_company_profile(website_content) awaits convert_html_to_markdown
CallGetCompanyProfile ==
    /\ ppc = "idle"
    /\ ppc' = "normalizing"
    /\ UNCHANGED <<phase, caller, seed, max_depth, crawlVars, analysisVars,
                   markdown_content, task, processed_results, tier2, profile>>

\* line 21 raises: the outer except of lines 90-100
NormalizeRaises ==
    /\ ppc = "normalizing"
    /\ profile' = ErrorProfile
    /\ ppc' = "done"
    /\ UNCHANGED <<phase, caller, seed, max_depth, crawlVars, analysisVars,
                   markdown_content, task, processed_results, tier2>>

NeverShortCircuits(md) == FALSE

\* line 23: `if markdown_content is None`
ShortCircuits(md) == md = "None"

\* line 21 returns None (lines 23-32) or a text (lines 34-43: the six
\* coroutines are created and handed to asyncio.gather)
NormalizeReturns ==
    /\ ppc = "normalizing"
    /\ \E md \in {"None", "text"} :
        /\ markdown_content' = md
        /\ IF ShortCircuits(md)
           THEN /\ profile' = NoneProfile
                /\ ppc' = "done"
           ELSE /\ ppc' = "gather"
                /\ UNCHANGED profile
    /\ UNCHANGED <<phase, caller, seed, max_depth, crawlVars, analysisVars,
                   task, processed_results, tier2>>

\* a gathered coroutine runs up to its await of generate_content
StartExtraction(f) ==
    /\ ppc = "gather"
    /\ task[f].st = "pending"
    /\ task' = [task EXCEPT ![f].st = "running"]
    /\ UNCHANGED <<phase, caller, seed, max_depth, crawlVars, analysisVars,
                   ppc, markdown_content, processed_results, tier2, profile>>

\* generate_content raises in the coroutine of field f
ExtractionRaises(f) ==
    /\ ppc = "gather"
    /\ task[f].st = "running"
    /\ task' = [task EXCEPT ![f] =
                  [st |-> "settled", kind |-> "raise", text |-> <<>>,
                   ret |-> <<>>]]
    /\ UNCHANGED <<phase, caller, seed, max_depth, crawlVars, analysisVars,
                   ppc, markdown_content, processed_results, tier2, profile>>

\* generate_content returns a response in the coroutine of field f
ExtractionResponds(f) ==
    /\ ppc = "gather"
    /\ task[f].st = "running"
    /\ \E text \in TextsOf(f) :
        task' = [task EXCEPT ![f] =
                   [st |-> "settled", kind |-> "value", text |-> text,
                    ret |-> ExtractorReturn(text)]]
    /\ UNCHANGED <<phase, caller, seed, max_depth, crawlVars, analysisVars,
                   ppc, markdown_content, processed_results, tier2, profile>>

\* the tier-2 call before get_company_profile reaches it
NoTier2 ==
    [st |-> "pending", calls |-> 0, tier_1_keywords |-> <<>>,
     text |-> <<>>, tier_2_keywords |-> <<>>]

Tier2ArgumentRaw(t) == t["tier1_keywords"].ret

\* lines 45-66: the argument of the tier-2 call is the processed tier-1
\* result, "Unknown" when the tier-1 coroutine raised
Tier2Argument(t) == Processed(t["tier1_keywords"])

Tier2FailureAborts(r) == ErrorProfile

\* lines 68-88: the profile built when the tier-2 call raised
Tier2FailureProfile(r) == BuiltProfile(r, Unknown)

\* lines 43-66: gather returns, the results are processed and the tier-2
\* coroutine is called with the processed tier-1 result
GatherReturns ==
    /\ ppc = "gather"
    /\ GatherDone(task)
    /\ processed_results' = [f \in IndependentFields |-> Processed(task[f])]
    /\ tier2' = [tier2 EXCEPT !.st = "running",
                              !.calls = @ + 1,
                              !.tier_1_keywords = Tier2Argument(task)]
    /\ ppc' = "tier2"
    /\ UNCHANGED <<phase, caller, seed, max_depth, crawlVars, analysisVars,
                   markdown_content, task, profile>>

\* lines 68-88: the tier-2 call raises, tier_2_keywords = "Unknown"
Tier2Raises ==
    /\ ppc = "tier2"
    /\ tier2' = [tier2 EXCEPT !.st = "raised", !.tier_2_keywords = Unknown]
    /\ profile' = Tier2FailureProfile(processed_results)
    /\ ppc' = "done"
    /\ UNCHANGED <<phase, caller, seed, max_depth, crawlVars, analysisVars,
                   markdown_content, task, processed_results>>

\* lines 62-88: the tier-2 call returns
Tier2Responds ==
    /\ ppc = "tier2"
    /\ \E text \in ListTexts :
        /\ tier2' = [tier2 EXCEPT !.st = "returned",
                                  !.text = text,
                                  !.tier_2_keywords = ExtractorReturn(text)]
        /\ profile' = BuiltProfile(processed_results, ExtractorReturn(text))
    /\ ppc' = "done"
    /\ UNCHANGED <<phase, caller, seed, max_depth, crawlVars, analysisVars,
                   markdown_content, task, processed_results>>

\* the state before any call, on the web w
InitOn(w) ==
    /\ web = w
    /\ site = <<>>
    /\ first = [returned |-> FALSE, result |-> EmptyBag]
    /\ phase = "idle"
    /\ caller = "none"
    /\ seed = "none"
    /\ max_depth = 0
    /\ visited = {}
    /\ html_contents = <<>>
    /\ stack = <<>>
    /\ result = EmptyBag
    /\ fetchLog = <<>>
    /\ all_domain_urls = <<>>
    /\ conv_i = 1
    /\ converted = <<>>
    /\ convLog = <<>>
    /\ all_markdown_content = <<>>
    /\ analysis = "none"
    /\ response = NoResponse
    /\ ppc = "idle"
    /\ markdown_content = "none"
    /\ task = [f \in IndependentFields |-> Pending]
    /\ processed_results = [f \in IndependentFields |-> <<>>]
    /\ tier2 = NoTier2
    /\ profile = NoProfile

Init == InitOn(FullWeb)

Next ==
    \/ CallFetchHtmlUrls
    \/ AnalyzeWebsite
    \/ FilterUrls
    \/ ConvertDocument
    \/ ReturnProfile
    \/ RouteResponds
    \/ SkipUrl
    \/ FetchRaises
    \/ FetchResponds
    \/ Recurse
    \/ ReturnUrls

Spec == Init /\ [][Next]_vars

\* one step of the recursion of fetch_html_urls
CrawlStep ==
    \/ SkipUrl
    \/ FetchRaises
    \/ FetchResponds
    \/ Recurse
    \/ ReturnUrls

\* the crawl is sequential code: while a call of fetch_html_urls is active
\* and every requests.get returns or raises, its next step is taken
NextCrawl == CallFetchHtmlUrls \/ CrawlStep

SpecFair == InitOn(SmallWeb) /\ [][NextCrawl]_vars /\ WF_vars(CrawlStep)

\* a second call fetch_html_urls(url, max_depth=d) with the same arguments,
\* lines 62-66, made on the same web after its pages were mirrored
CallFetchHtmlUrlsOnMirror ==
    /\ phase = "crawled"
    /\ caller = "direct"
    /\ ~web.mirrored
    /\ first' = [returned |-> TRUE, result |-> result]
    /\ web' = [web EXCEPT !.mirrored = TRUE]
    /\ visited' = {}
    /\ html_contents' = <<>>
    /\ fetchLog' = <<>>
    /\ result' = EmptyBag
    /\ stack' = <<Frame(seed, 0)>>
    /\ phase' = "crawl"
    /\ UNCHANGED <<caller, seed, max_depth, site, analysisVars, profileVars>>

NextTwoOrders ==
    \/ CallFetchHtmlUrls
    \/ CallFetchHtmlUrlsOnMirror
    \/ SkipUrl
    \/ FetchResponds
    \/ Recurse
    \/ ReturnUrls

\* two crawls of one web whose requests all succeed, the second one after
\* every page had the order of its links reversed
SpecTwoOrders == InitOn(LinkedWeb) /\ [][NextTwoOrders]_vars

NextProfile ==
    \/ CallGetCompanyProfile
    \/ NormalizeRaises
    \/ NormalizeReturns
    \/ \E f \in IndependentFields : StartExtraction(f)
    \/ \E f \in IndependentFields : ExtractionRaises(f)
    \/ \E f \in IndependentFields : ExtractionResponds(f)
    \/ GatherReturns
    \/ Tier2Raises
    \/ Tier2Responds

SpecProfile == Init /\ [][NextProfile]_vars

\* every call get_company_profile awaits returns or raises, so the coroutine
\* takes its next step; each of its steps changes ppc or task
SpecProfileFair ==
    Init /\ [][NextProfile]_vars /\ WF_<<ppc, task>>(NextProfile)

(***************************************************************************)
(* Properties                                                              *)
(***************************************************************************)

\* the top-level call of fetch_html_urls has returned its list
CrawlReturned == phase \in {"crawled", "convert", "returned", "responded"}

\* analyze_website has returned a profile
AnalysisReturned == phase \in {"returned", "responded"}

\* the first requests.get of a crawl is the one of the seed, at depth 0
SeedFetchFailed ==
    /\ fetchLog # <<>>
    /\ fetchLog[1].outcome \in {"raised", "non2xx"}

\* C1: within one crawl every URL is fetched at most once, however many
\* pages link to it, at whatever depths, and also when its first fetch failed
C1_FetchedAtMostOnce ==
    \A i, j \in DOMAIN fetchLog :
        fetchLog[i].url = fetchLog[j].url => i = j

\* a URL whose fetch raised is reached again, within the depth bound and at
\* another depth than the one it was fetched at
C1_Witness ==
    /\ phase = "crawl"
    /\ Top.pc = "enter"
    /\ Top.depth < max_depth
    /\ \E i \in DOMAIN fetchLog :
        /\ fetchLog[i].url = Top.url
        /\ fetchLog[i].outcome = "raised"
        /\ fetchLog[i].depth # Top.depth

\* C2: when the fetch of the seed fails (network error or non-2xx), the
\* crawl returns no URL list and the analysis returns no profile
C2_SeedFailureIsFatal ==
    SeedFetchFailed => (~CrawlReturned /\ ~AnalysisReturned)

\* C3: for every max_depth >= 0, a crawl that returns a result returns one
\* that contains the seed
C3_ResultContainsSeed ==
    CrawlReturned => BagIn(seed, result)

\* C4: no URL appears more than once in the list the crawl returns
C4_NoDuplicateInResult ==
    CrawlReturned => \A u \in BagToSet(result) : CopiesIn(u, result) = 1

\* C5: every fetch happens at a depth d with 0 <= d < max_depth, the depth
\* of an activation is the depth of its caller plus one, and the pages whose
\* links are in the result were fetched below max_depth
C5_DepthBounded ==
    /\ \A i \in DOMAIN fetchLog :
        fetchLog[i].depth >= 0 /\ fetchLog[i].depth < max_depth
    /\ \A k \in DOMAIN stack : stack[k].depth = k - 1
    /\ \A k \in DOMAIN stack : stack[k].pc = "loop" => stack[k].depth < max_depth
    /\ \A u \in DOMAIN html_contents :
        \E i \in DOMAIN fetchLog :
            fetchLog[i].url = u /\ fetchLog[i].depth < max_depth

\* an unvisited URL found on a page fetched at depth max_depth - 1 is
\* reached at depth max_depth
C5_Witness ==
    /\ phase = "crawl"
    /\ max_depth >= 2
    /\ Top.pc = "enter"
    /\ Top.depth = max_depth
    /\ Top.url \notin visited
    /\ \E i \in DOMAIN fetchLog : fetchLog[i].depth = max_depth - 1

\* C6: a URL that matches the blocked-extension pattern is never fetched by
\* the crawl
C6_BlockedNeverFetched ==
    \A i \in DOMAIN fetchLog : ~BlockedText(UrlText(fetchLog[i].url))

FailedOrEmpty(f) ==
    \/ task[f].kind = "raise"
    \/ task[f].kind = "value" /\ task[f].text = <<>>

\* the sentinel in the shape of the field: "Unknown" or ["Unknown"]
Sentinel(f) == IF f \in ScalarFields THEN Str(Unknown) ELSE List(<<Unknown>>)

RECURSIVE JoinComma(_)
JoinComma(l) ==
    IF l = <<>> THEN <<>>
    ELSE IF Len(l) = 1 THEN l[1]
    ELSE l[1] \o <<",">> \o JoinComma(Tail(l))

\* the field holds the extracted text: as it is, or cut at its commas
HoldsText(v, f, text) ==
    IF f \in ScalarFields
    THEN v = Str(text)
    ELSE /\ v.kind = "list"
         /\ \A k \in DOMAIN v.v : \A j \in DOMAIN v.v[k] : v.v[k][j] # ","
         /\ JoinComma(v.v) = text

\* C7: the tier-2 call is not started while one of the six independent
\* subtasks is pending or running
C7_Tier2AfterAllSettled ==
    tier2.st # "pending" =>
        \A f \in IndependentFields : task[f].st = "settled"

\* the tier-2 call runs after subtasks that raised, returned nothing and
\* returned a text
C7_Witness ==
    /\ tier2.st = "running"
    /\ \E f \in IndependentFields : task[f].kind = "raise"
    /\ \E f \in IndependentFields : task[f].kind = "value" /\ task[f].text = <<>>
    /\ \E f \in IndependentFields : task[f].kind = "value" /\ task[f].text # <<>>

ProfileScalars == {"company_name", "company_description", "point_of_contact"}
ProfileLists == {"service_lines", "tier1_keywords", "tier2_keywords", "emails"}

\* C9: when normalization fails (None returned, or an exception), every
\* scalar field of the returned profile is "Unknown" and every list field is
\* the one-element sequence ["Unknown"]
C9_NormalizationFailureSentinels ==
    (ppc = "done" /\ markdown_content # "text") =>
        /\ \A f \in ProfileScalars :
            profile[f].kind = "str" /\ profile[f].v = Unknown
        /\ \A f \in ProfileLists :
            profile[f].kind = "list" /\ profile[f].v = <<Unknown>>

RECURSIVE Trim(_)
\* the text without its leading and trailing blanks
Trim(t) ==
    IF t = <<>> THEN t
    ELSE IF Head(t) = " " THEN Trim(Tail(t))
    ELSE IF t[Len(t)] = " " THEN Trim(SubSeq(t, 1, Len(t) - 1))
    ELSE t

\* the comma-separated tokens of the text, trimmed, the empty ones dropped
TrimmedTokens(t) ==
    LET cut == Split(t)
        trimmed == [k \in DOMAIN cut |-> Trim(cut[k])]
    IN  SelectSeq(trimmed, LAMBDA x : x # <<>>)

\* C10: a list field whose raw extraction string is not the sentinel is the
\* sequence of the trimmed, non-empty comma-separated tokens of that string
C10_TrimmedTokens ==
    (ppc = "done" /\ markdown_content = "text") =>
        \A f \in ListFields :
            processed_results[f] # Unknown =>
                /\ profile[f].kind = "list"
                /\ profile[f].v = TrimmedTokens(processed_results[f])

\* the settled raw value of a field: the processed result of its coroutine,
\* for tier2_keywords the value the tier-2 try/except left
SettledRaw(f) ==
    IF f = "tier2_keywords" THEN tier2.tier_2_keywords
    ELSE processed_results[f]

\* the merge has run: every raw value is settled and the profile is built
Merged == ppc = "done" /\ tier2.st \in {"raised", "returned"}

\* C11: in a profile built from settled raw values, a list field whose raw
\* value is the sentinel is exactly the one-element sequence ["Unknown"]
\* (not empty, not a bare scalar), and a scalar field whose raw value is the
\* sentinel is the scalar "Unknown".
C11_SentinelShapePerType ==
    Merged =>
        /\ \A f \in ProfileLists :
             SettledRaw(f) = Unknown =>
                 /\ profile[f].kind = "list"
                 /\ Len(profile[f].v) = 1
                 /\ profile[f].v[1] = Unknown
        /\ \A f \in ProfileScalars :
             SettledRaw(f) = Unknown =>
                 /\ profile[f].kind = "str"
                 /\ profile[f].v = Unknown

\* a merged profile where a list field, the tier-2 field and a scalar field
\* all settled to the sentinel while another list field holds real tokens
C11_Witness ==
    /\ Merged
    /\ SettledRaw("emails") = Unknown
    /\ SettledRaw("tier2_keywords") = Unknown
    /\ SettledRaw("company_name") = Unknown
    /\ SettledRaw("service_lines") = <<"a", ",", "b">>

\* C14: when normalization succeeded, the tier-2 call is made exactly once
\* by the time the profile is returned (never more than once before), also
\* when tier-1 raised or returned nothing; the tier-1 value it receives is the
\* settled tier-1 result, the one the profile's tier1_keywords is built from,
\* and it is "Unknown" when tier-1 failed.
C14_Tier2OnceWithSettledTier1 ==
    /\ tier2.calls <= 1
    /\ (ppc \in {"tier2", "done"} /\ markdown_content = "text") =>
        /\ tier2.calls = 1
        /\ tier2.tier_1_keywords = processed_results["tier1_keywords"]
        /\ FailedOrEmpty("tier1_keywords") => tier2.tier_1_keywords = Unknown
        /\ ~FailedOrEmpty("tier1_keywords") =>
               tier2.tier_1_keywords = task["tier1_keywords"].text
        /\ ppc = "done" =>
               profile.tier1_keywords =
                   IF tier2.tier_1_keywords = Unknown
                   THEN List(<<Unknown>>)
                   ELSE List(Split(tier2.tier_1_keywords))

\* the profile is returned after a tier-2 call that received "Unknown"
\* because the tier-1 coroutine raised
C14_Witness ==
    /\ ppc = "done"
    /\ markdown_content = "text"
    /\ task["tier1_keywords"].kind = "raise"
    /\ tier2.calls = 1
    /\ tier2.st = "returned"

\* the six fields other than tier2_keywords
OtherFields == (ProfileScalars \cup ProfileLists) \ {"tier2_keywords"}

\* what the merge makes of a settled raw value, field by field
ShapeOf(f, raw) ==
    IF f \in ProfileScalars THEN Str(raw)
    ELSE IF raw = Unknown THEN List(<<Unknown>>)
    ELSE List(Split(raw))

\* the tier-2 call raised, or returned an empty text
Tier2FailedOrEmpty ==
    \/ tier2.st = "raised"
    \/ tier2.st = "returned" /\ tier2.text = <<>>

\* C15: when the tier-2 call raises or returns an empty result, the
\* profile's tier2_keywords is ["Unknown"] and each of the six other fields
\* is what the settled result of its own coroutine gives, as after a
\* successful tier-2 call.
C15_Tier2FailureFrame ==
    (ppc = "done" /\ Tier2FailedOrEmpty) =>
        /\ profile.tier2_keywords = List(<<Unknown>>)
        /\ \A f \in OtherFields :
               profile[f] = ShapeOf(f, processed_results[f])

\* the tier-2 call raised after coroutines that returned real values
C15_Witness ==
    /\ ppc = "done"
    /\ tier2.st = "raised"
    /\ processed_results["company_name"] = <<"N">>
    /\ processed_results["emails"] = <<"a", ",", "b">>

\* the fetch of fetchLog[i] failed: requests.get raised, or the status of
\* the response is not 2xx
FetchFailed(i) == fetchLog[i].outcome \in {"raised", "non2xx"}

\* C13: a page whose fetch at depth > 0 failed contributes no child URLs:
\* its activation never reaches the loop over found links, and its body is
\* not kept.
C13_FailedBranchContributesNothing ==
    \A i \in DOMAIN fetchLog :
        (fetchLog[i].depth > 0 /\ FetchFailed(i)) =>
            /\ fetchLog[i].url \notin DOMAIN html_contents
            /\ \A k \in DOMAIN stack :
                   stack[k].url = fetchLog[i].url => stack[k].pc = "enter"

\* C16: the body of a non-2xx response is never stored as page content and
\* never scanned for links, at depth 0 and at depth > 0 alike.
C16_Non2xxBodyNeverStored ==
    \A i \in DOMAIN fetchLog :
        fetchLog[i].outcome = "non2xx" =>
            fetchLog[i].url \notin DOMAIN html_contents

\* the host of a url: its text up to the first "/"
HostOf(u) ==
    LET t == UrlText(u)
        n == CHOOSE k \in 0..Len(t) :
                /\ \A j \in 1..k : t[j] # "/"
                /\ (k = Len(t) \/ t[k + 1] = "/")
    IN  SubSeq(t, 1, n)

\* C17: every URL the crawl fetches and every URL of its result has the
\* host of the seed ("www." apart); a host that only starts with the seed's
\* first label is not admitted.
C17_OnlySeedDomain ==
    /\ \A i \in DOMAIN fetchLog : HostOf(fetchLog[i].url) = HostOf(seed)
    /\ CrawlReturned =>
           \A u \in BagToSet(result) : HostOf(u) = HostOf(seed)

\* C18: the profile an analysis returns is the one the extractor produced:
\* get_company_profile has run to its end and the caller holds its profile.
C18_ProfileComesFromExtractor ==
    AnalysisReturned =>
        /\ ppc = "done"
        /\ phase = "responded" => response.status = "profile"

\* the seed was fetched with a 2xx response whose body has no link to the
\* seed's host
SeedAloneOnSite ==
    /\ Len(fetchLog) >= 1
    /\ fetchLog[1].outcome = "2xx"
    /\ seed \in DOMAIN html_contents
    /\ \A j \in DOMAIN html_contents[seed] :
           HostOf(html_contents[seed][j]) # HostOf(seed)

\* C20: when the seed is fetched successfully and its page has no
\* same-domain link, the crawl with max_depth >= 1 returns exactly the seed and
\* issues exactly one fetch.
C20_SeedAlone ==
    (CrawlReturned /\ max_depth >= 1 /\ SeedAloneOnSite) =>
        /\ result = SetToBag({seed})
        /\ Len(fetchLog) = 1

RECURSIVE StackWeight(_)
\* the steps the activations of st still owe without any new fetch: one per
\* activation, two per link its loop has not finished
StackWeight(st) ==
    IF st = <<>> THEN 0
    ELSE LET f == st[Len(st)]
             below == SubSeq(st, 1, Len(st) - 1)
         IN  StackWeight(below)
             + (IF f.pc = "enter" THEN 1
                ELSE 2 * (Len(f.domain_urls) - f.i + 1) + 1)
             - (IF below # <<>> THEN 2 ELSE 0)

\* a bound on the steps the crawl can still take: every url not yet visited
\* may bring one page of links
Rank ==
    Cardinality(web.urls \ visited) * (2 * web.links + 2) + StackWeight(stack)

\* C12: the crawl terminates on every finite link graph, cycles and
\* self-links included, for every max_depth, when each fetch returns or
\* fails: every step of the recursion lowers a bound that the visited-set
\* and the loop positions give, and a started crawl always returns.
C12_CrawlTerminates ==
    /\ [][phase = "crawl" => (Rank' < Rank /\ Rank' >= 0)]_vars
    /\ (phase = "crawl") ~> CrawlReturned

\* a crawl returned from a site with a self-link and a cycle, at the largest
\* depth bound
C12_Witness ==
    /\ CrawlReturned
    /\ max_depth = MaxDepthBound
    /\ {"S", "A"} \subseteq DOMAIN html_contents
    /\ {"S", "A"} \subseteq SeqToSet(html_contents["S"])
    /\ "S" \in SeqToSet(html_contents["A"])

\* C19: the set of URLs the crawl returns does not depend on the order in
\* which the links of a page are explored: the crawl of the mirrored pages
\* returns the set the first crawl returned.
C19_OrderIndependent ==
    (web.mirrored /\ phase = "crawled") =>
        BagToSet(result) = BagToSet(first.result)

\* the normalizer returned no text, or it raised and get_company_profile
\* went to its outer except
NormalizationFailed ==
    \/ markdown_content = "None"
    \/ ppc = "done" /\ markdown_content = "none"

\* the value of a profile field is the sentinel, bare or as a list
IsSentinel(v) == v.v = Unknown \/ v.v = <<Unknown>>

\* C21: when normalization fails, no extraction call is issued: none of the
\* six coroutines is started and the tier-2 coroutine is never called, and the
\* profile get_company_profile returns holds the sentinel in every field.
C21_NoExtractionAfterFailedNormalization ==
    NormalizationFailed =>
        /\ \A f \in IndependentFields : task[f] = Pending
        /\ tier2 = NoTier2
        /\ ppc = "done"
        /\ \A f \in ProfileScalars \cup ProfileLists : IsSentinel(profile[f])

\* get_company_profile returned after the normalizer gave None
C21_Witness ==
    /\ ppc = "done"
    /\ markdown_content = "None"
    /\ profile = NoneProfile

\* the urls of the crawl's list that the extension filter lets through
CrawledDocuments == {u \in BagToSet(result) : ~BlockedText(UrlText(u))}

\* the texts of the conversions that returned, in the order of the calls
NormalizedTexts ==
    [j \in 1..Len(SelectSeq(convLog, LAMBDA c : ~c.raised)) |-> <<"md">>]

\* C22: in analyze_website the documents normalized are the crawled URLs,
\* and the combined text is made of the texts of exactly those whose
\* normalization returned, in order; a failed one only drops its own text.
C22_FailureDropsOneDocumentOnly ==
    AnalysisReturned =>
        /\ {convLog[j].item : j \in DOMAIN convLog} = CrawledDocuments
        /\ all_markdown_content = Join(NormalizedTexts)

\* the seven fields of a profile
ProfileFields == ProfileScalars \cup ProfileLists

\* C23: get_company_profile is total: whatever the normalizer and the seven
\* extraction calls do (value, empty result, exception), the call returns, and
\* what it returns is a profile with all seven fields, each a string or a
\* list.
C23_GetCompanyProfileTotal ==
    /\ [](ppc = "done" =>
            /\ DOMAIN profile = ProfileFields
            /\ \A f \in ProfileFields : profile[f].kind \in {"str", "list"})
    /\ (ppc = "normalizing") ~> (ppc = "done")

\* the profile returned after one coroutine raised, another returned an
\* empty text and the tier-2 call raised
C23_Witness ==
    /\ ppc = "done"
    /\ tier2.st = "raised"
    /\ \E f \in IndependentFields : task[f].kind = "raise"
    /\ \E f \in IndependentFields :
           task[f].kind = "value" /\ task[f].text = <<>>
    /\ DOMAIN profile = ProfileFields

\* the same-domain links of the stored page of u
SameDomainLinks(u) ==
    {v \in SeqToSet(html_contents[u]) : HostOf(v) = HostOf(seed)}

RECURSIVE Within(_)
\* the urls a chain of at most n same-domain links over fetched pages
\* reaches from the seed
Within(n) ==
    IF n <= 0 THEN {seed}
    ELSE LET near == Within(n - 1)
         IN  near \cup UNION {SameDomainLinks(u) :
                                u \in near \cap DOMAIN html_contents}

\* the urls requests.get was called on
Fetched == {fetchLog[j].url : j \in DOMAIN fetchLog}

\* C24: the crawl is complete within its depth bound: every URL that a chain
\* of fewer than max_depth same-domain links over fetched pages reaches from the
\* seed is fetched, and every link of such a page is in the result.
C24_CompleteWithinDepth ==
    (phase = "crawled" /\ max_depth >= 1) =>
        /\ Within(max_depth - 1) \subseteq Fetched
        /\ \A u \in Within(max_depth - 1) \cap DOMAIN html_contents :
               SameDomainLinks(u) \subseteq BagToSet(result)

====
